---- MODULE Spec2Model ----
(***************************************************************************)
(* Wallet ledger and transfer coordination engine of the digital wallet    *)
(* backend (backend/src/services/walletService.js) over its MySQL schema   *)
(* (database/schema.sql).                                                  *)
(*                                                                         *)
(* The model covers one calendar day.  The database tables are the shared  *)
(* state; every in-flight service call is a request slot whose position    *)
(* (pc) advances from one await of the handler to the next.  An atomic     *)
(* unit (beginTransaction .. commit/rollback) that locks a single wallet   *)
(* row is one step guarded by that row being unlocked; the transfer unit,  *)
(* which locks two rows, acquires them one after the other in the order of *)
(* its userIds array and applies all its writes at commit.                 *)
(* Amounts are whole rupees.                                               *)
(***************************************************************************)
EXTENDS Integers, Sequences, FiniteSets, TLC

VARIABLES
    users,      \* users table, in insertion order (id = index)
    balance,    \* wallets.balance, by user_id
    txns,       \* transactions table, in insertion order (transaction_id = index)
    otps,       \* otps table, in insertion order (id = reference_id = index)
    daily,      \* daily_limits row of the day, by user_id
    lock,       \* holder of the row lock of each wallet (0: unlocked)
    req,        \* the service calls: arguments, locals and position of each
    balance0,   \* the balances the day opened with (never written)
    now         \* CURRENT_TIMESTAMP, in whole seconds since the day opened

vars == <<users, balance, txns, otps, daily, lock, req, balance0, now>>

----------------------------------------------------------------------------
(* Bounds of the model *)

NUsers == 2          \* registered users of the general workload, ids 1..NUsers
MaxReq == 2          \* addMoney / transfer calls of the general workload
MaxOtps == 2         \* OTPs issued in the general workload

Users == DOMAIN balance    \* users.id of the registered users, each with a wallet
Slots == DOMAIN req

(* Program constants (config/constants.js) *)
MIN_TRANSACTION_AMOUNT == 100
MAX_TRANSACTION_AMOUNT == 200000
DAILY_TRANSFER_LIMIT == 500000
DAILY_ADD_MONEY_LIMIT == 500000
OTP_VALIDITY_MINUTES == 5

NoKey == 0                 \* idempotencyKey undefined (stored as NULL)
NoEmail == 0               \* an email no users row carries
Code == 111111             \* the otp_code generateOTP draws

----------------------------------------------------------------------------
(* Tables and helpers *)

\* users.email of user u
Email(u) == users[u].email

\* the users rows of n registered users; the email of user u is written u
Registered(n) == [u \in 1..n |-> [email |-> u]]

\* SELECT id FROM users WHERE email = ? AND is_active = TRUE
Recipients(toEmail) == {u \in Users : Email(u) = toEmail}

\* CONSTRAINT chk_positive_balance CHECK (balance >= 0)
ChkPositiveBalance(b) == b >= 0

\* CONSTRAINT chk_positive_amount CHECK (amount > 0)
ChkPositiveAmount(a) == a > 0

TxnIds == 1..Len(txns)
OtpIds == 1..Len(otps)

\* a transactions table without the unique index on idempotency_key
NoUniqueKey(key) == FALSE

\* idempotency_key VARCHAR(36) UNIQUE: a non-NULL key may appear in one row only
DuplicateKey(key) == key # NoKey /\ \E i \in TxnIds : txns[i].key = key

\* validateAmount without its upper bound
ValidateAmountNoMaximum(amount) ==
    IF amount < MIN_TRANSACTION_AMOUNT THEN "Minimum transaction amount"
    ELSE "ok"

\* validateAmount: the error it throws, or "ok"
ValidateAmount(amount) ==
    IF amount < MIN_TRANSACTION_AMOUNT THEN "Minimum transaction amount"
    ELSE IF amount > MAX_TRANSACTION_AMOUNT THEN "Maximum transaction amount"
    ELSE "ok"

\* validateAmount without the test of the decimal places
ValidateWholePart(amount, mills) == ValidateAmount(amount)

\* validateAmount of the amount of `amount` rupees and `mills` thousandths
\* (0..999): the bounds, then /^\d+(\.\d{1,2})?$/ on amount.toString()
ValidateDecimalAmount(amount, mills) ==
    IF ValidateAmount(amount) # "ok" THEN ValidateAmount(amount)
    ELSE IF amount = MAX_TRANSACTION_AMOUNT /\ mills > 0
         THEN "Maximum transaction amount"
    ELSE IF mills % 10 # 0 THEN "Amount can have maximum 2 decimal places"
    ELSE "ok"

\* checkIdempotency: the rows found for the key (none for an undefined key)
CheckIdempotency(key) ==
    IF key = NoKey THEN {} ELSE {i \in TxnIds : txns[i].key = key}

\* an addMoney that never consults the daily total
NoDailyAddMoneyLimit(u, amount) == FALSE

\* checkDailyAddMoneyLimit throws
DailyAddMoneyExceeded(u, amount) ==
    daily[u].added + amount > DAILY_ADD_MONEY_LIMIT

\* checkDailyTransferLimit throws
DailyTransferExceeded(u, amount) ==
    daily[u].transferred + amount > DAILY_TRANSFER_LIMIT

\* an upsert that stores the amount instead of adding it
SetDailyLimit(d, u, column, amount) ==
    [d EXCEPT ![u][column] = amount]

\* updateDailyLimit: INSERT .. ON DUPLICATE KEY UPDATE column = column + amount
UpdateDailyLimit(d, u, column, amount) ==
    [d EXCEPT ![u][column] = @ + amount]

\* an UPDATE wallets without its WHERE clause
UpdateEveryWallet(b, userId, newBalance) == [u \in DOMAIN b |-> newBalance]

\* UPDATE wallets SET balance = ? WHERE user_id = ?
UpdateWallet(b, userId, newBalance) == [b EXCEPT ![userId] = newBalance]

\* the validation query without its expires_at > NOW() condition
ValidOtpsIgnoringExpiry(u, ref, code) ==
    {i \in OtpIds : /\ otps[i].user = u
                    /\ otps[i].ref = ref
                    /\ otps[i].code = code
                    /\ ~otps[i].used}

\* the rows the OTP validation query of transfer selects
ValidOtps(u, ref, code) ==
    {i \in OtpIds : /\ otps[i].user = u
                    /\ otps[i].ref = ref
                    /\ otps[i].code = code
                    /\ ~otps[i].used
                    /\ ~otps[i].expired}

\* [userId, recipientId].sort((a, b) => a - b)
SortedIds(a, b) == IF a <= b THEN <<a, b>> ELSE <<b, a>>

\* a request slot before its call is made
IdleReq ==
    [op |-> "none", pc |-> "idle", user |-> 0, to |-> NoEmail, amount |-> 0,
     key |-> NoKey, otp |-> 0, ref |-> 0, otpId |-> 0, rcpt |-> 0, held |-> 0,
     cur |-> 0, rcur |-> 0, txn |-> 0, res |-> "none", replayOf |-> 0,
     mills |-> 0, cached |-> "none", rows |-> <<>>, total |-> 0, pages |-> 0,
     page |-> 0, limit |-> 0]

\* slots are taken in order
NextSlot(p) ==
    /\ req[p].pc = "idle"
    /\ IF p = 1 THEN TRUE ELSE req[p - 1].pc # "idle"

Finish(r, result) == [r EXCEPT !.pc = "done", !.res = result]

----------------------------------------------------------------------------
(* Initial states: the start of a day.  Wallets hold what earlier days     *)
(* left in them; nothing of today is in the ledger yet.                    *)

\* n users with opening balances from B, nothing issued, m calls to come
InitDay(n, B, m) ==
    /\ users = Registered(n)
    /\ balance \in [1..n -> B]
    /\ balance0 = balance
    /\ now = 0
    /\ txns = <<>>
    /\ otps = <<>>
    /\ daily = [u \in 1..n |-> [added |-> 0, transferred |-> 0]]
    /\ lock = [u \in 1..n |-> 0]
    /\ req = [p \in 1..m |-> IdleReq]

\* a store without row locks: FOR UPDATE never waits
NoRowLock(row, p) == TRUE

\* a wallet row can be locked by unit p: no other unit holds it
LockFree(row, p) == lock[row] \in {0, p}

\* commit or rollback gives up the row locks of the unit
Release(p) == [u \in Users |-> IF lock[u] = p THEN 0 ELSE lock[u]]

----------------------------------------------------------------------------
(* addMoney(userId, amount, paymentMethod, idempotencyKey) *)

\* the terminal ADD_MONEY entry a call with these arguments replays (0: none)
CompletedAddMoney(u, amount, key) ==
    LET done == {i \in TxnIds : /\ txns[i].key = key
                                /\ txns[i].user = u
                                /\ txns[i].amount = amount
                                /\ txns[i].type = "ADD_MONEY"
                                /\ txns[i].status # "PENDING"}
    IN IF key = NoKey \/ done = {} THEN 0 ELSE CHOOSE i \in done : TRUE

\* validateAmount, then checkDailyAddMoneyLimit; the amount is a rupees and
\* f thousandths (an amount that passes validation is of whole rupees here)
AddMoneyCall(p, U, A, F, K) ==
    /\ NextSlot(p)
    /\ \E u \in U, a \in A, f \in F, k \in K :
         LET r == [IdleReq EXCEPT !.op = "addMoney", !.user = u, !.amount = a,
                                  !.mills = f, !.key = k,
                                  !.replayOf = CompletedAddMoney(u, a, k)]
             invalid == ValidateDecimalAmount(a, f)
         IN req' = [req EXCEPT ![p] =
                IF invalid # "ok" THEN Finish(r, invalid)
                ELSE IF DailyAddMoneyExceeded(u, a)
                     THEN Finish(r, "Daily add money limit exceeded")
                     ELSE [r EXCEPT !.pc = "idem"]]
    /\ UNCHANGED <<balance, txns, otps, daily, lock, balance0, users, now>>

\* a call with an amount of whole rupees
AddMoneyStart(p, U, A, K) == AddMoneyCall(p, U, A, {0}, K)

\* checkIdempotency: an existing row is returned as the cached response
AddMoneyIdem(p) ==
    /\ req[p].op = "addMoney" /\ req[p].pc = "idem"
    /\ LET found == CheckIdempotency(req[p].key)
       IN req' = [req EXCEPT ![p] =
              IF found # {}
              THEN [Finish(@, "duplicate")
                       EXCEPT !.txn = CHOOSE i \in found : TRUE,
                              !.cached = txns[CHOOSE i \in found : TRUE].status]
              ELSE [@ EXCEPT !.pc = "pending"]]
    /\ UNCHANGED <<balance, txns, otps, daily, lock, balance0, users, now>>

NoReason == "NULL"         \* failure_reason of a row that has none

\* a PENDING row that already carries the balance a successful payment gives
PendingEntryCredited(transactionId, key, userId, amount, currentBalance) ==
    [id |-> transactionId, key |-> key, user |-> userId, type |-> "ADD_MONEY",
     amount |-> amount, before |-> currentBalance,
     after |-> currentBalance + amount, status |-> "PENDING", cp |-> 0,
     cpTxn |-> 0, reason |-> NoReason,
     created |-> now]

\* the PENDING row of the first unit: balance_after provisionally the balance read
PendingEntry(transactionId, key, userId, amount, currentBalance) ==
    [id |-> transactionId, key |-> key, user |-> userId, type |-> "ADD_MONEY",
     amount |-> amount, before |-> currentBalance, after |-> currentBalance,
     status |-> "PENDING", cp |-> 0, cpTxn |-> 0, reason |-> NoReason,
     created |-> now]

\* a first unit left open while the gateway is called: the row stays locked
HeldAcrossGateway(row, p) == [lock EXCEPT ![row] = p]

\* connection.commit() of the first unit gives up the wallet row
CommitPending(row, p) == [lock EXCEPT ![row] = 0]

\* first unit: SELECT balance .. FOR UPDATE, INSERT the PENDING row, commit
AddMoneyPending(p) ==
    /\ req[p].op = "addMoney" /\ req[p].pc = "pending"
    /\ LockFree(req[p].user, p)
    /\ LET u == req[p].user
           currentBalance == balance[u]
           transactionId == Len(txns) + 1
       IN IF DuplicateKey(req[p].key)
          THEN /\ req' = [req EXCEPT ![p] = Finish(@, "ER_DUP_ENTRY")]
               /\ txns' = txns
               /\ lock' = Release(p)
          ELSE /\ txns' = Append(txns, PendingEntry(transactionId, req[p].key, u,
                                                    req[p].amount, currentBalance))
               /\ req' = [req EXCEPT ![p] = [@ EXCEPT !.pc = "gateway",
                                                      !.cur = currentBalance,
                                                      !.txn = transactionId]]
               /\ lock' = CommitPending(u, p)
    /\ UNCHANGED <<balance, otps, daily, balance0, users, now>>

\* the balance the success branch writes
AddMoneyNewBalance(currentBalance, amount) == currentBalance + amount

GatewayFailure == "Transaction declined by bank"    \* a message of simulateFailure

\* a failure branch that returns without updating the row
LeftPending(entry, message) == entry

\* UPDATE transactions SET status = FAILED, failure_reason = the message
MarkFailed(entry, message) ==
    [entry EXCEPT !.status = "FAILED", !.reason = message]

\* paymentGateway.processPayment returns, outside any unit, with success or
\* failure; then the second unit: on success UPDATE wallets, the row and the
\* daily total; on failure mark the row FAILED
AddMoneyFinalize(p) ==
    /\ req[p].op = "addMoney" /\ req[p].pc = "gateway"
    /\ \E success \in BOOLEAN :
         LET u == req[p].user
             newBalance == AddMoneyNewBalance(req[p].cur, req[p].amount)
         IN IF success
            THEN /\ LockFree(u, p)
                 /\ balance' = UpdateWallet(balance, u, newBalance)
                 /\ txns' = [txns EXCEPT ![req[p].txn].status = "SUCCESS",
                                         ![req[p].txn].after = newBalance]
                 /\ daily' = UpdateDailyLimit(daily, u, "added", req[p].amount)
                 /\ req' = [req EXCEPT ![p] = Finish(@, "success")]
            ELSE /\ txns' = [txns EXCEPT ![req[p].txn] = MarkFailed(@, GatewayFailure)]
                 /\ req' = [req EXCEPT ![p] = Finish(@, "failed")]
                 /\ UNCHANGED <<balance, daily>>
    /\ lock' = Release(p)
    /\ UNCHANGED <<otps, balance0, users, now>>

----------------------------------------------------------------------------
(* generateTransferOTP(userId, toEmail, amount) *)

\* the error generateTransferOTP throws, or "ok"
OtpError(u, toEmail, amount) ==
    IF ValidateAmount(amount) # "ok" THEN ValidateAmount(amount)
    ELSE IF Recipients(toEmail) = {} THEN "Recipient not found"
    ELSE IF toEmail = Email(u) THEN "Cannot transfer to yourself"
    ELSE IF balance[u] < amount THEN "Insufficient balance"
    ELSE IF DailyTransferExceeded(u, amount) THEN "Daily transfer limit exceeded"
    ELSE "ok"

\* an OTP row that is expired from its first second
OtpRowLapsed(userId, referenceId) ==
    [user |-> userId, code |-> Code, ref |-> referenceId, used |-> FALSE,
     expired |-> FALSE, expires |-> now]

\* the row of the INSERT INTO otps: is_used FALSE by default, expires_at
\* OTP_VALIDITY_MINUTES after Date.now()
OtpRow(userId, referenceId) ==
    [user |-> userId, code |-> Code, ref |-> referenceId, used |-> FALSE,
     expired |-> FALSE, expires |-> now + OTP_VALIDITY_MINUTES * 60]

\* a call that passes every check inserts an unused row under a new reference_id
GenerateTransferOTP(U, E, A, max) ==
    /\ Len(otps) < max
    /\ \E u \in U, e \in E, a \in A :
         /\ OtpError(u, e, a) = "ok"
         /\ otps' = Append(otps, OtpRow(u, Len(otps) + 1))
    /\ UNCHANGED <<balance, txns, daily, lock, req, balance0, users, now>>

\* NOW() passes expires_at of an OTP
OtpExpire ==
    /\ \E i \in OtpIds :
         /\ ~otps[i].expired
         /\ otps' = [otps EXCEPT ![i].expired = TRUE]
    /\ UNCHANGED <<balance, txns, daily, lock, req, balance0, users, now>>

----------------------------------------------------------------------------
(* transfer(userId, toEmail, amount, otp, referenceId, idempotencyKey) *)

\* the debit entry of a committed call with the same arguments (0: none)
CompletedTransfer(u, toEmail, amount, code, ref, key) ==
    LET same == {q \in Slots : /\ req[q].op = "transfer"
                               /\ req[q].res = "success"
                               /\ req[q].user = u
                               /\ req[q].to = toEmail
                               /\ req[q].amount = amount
                               /\ req[q].otp = code
                               /\ req[q].ref = ref
                               /\ req[q].key = key}
    IN IF key = NoKey \/ same = {} THEN 0 ELSE req[CHOOSE q \in same : TRUE].txn

\* the OTP validation query, outside any unit
TransferStart(p, U, E, A, C, R, K) ==
    /\ NextSlot(p)
    /\ \E u \in U, e \in E, a \in A, c \in C, ref \in R, k \in K :
         LET r == [IdleReq EXCEPT !.op = "transfer", !.user = u, !.to = e,
                                  !.amount = a, !.otp = c, !.ref = ref, !.key = k,
                                  !.replayOf = CompletedTransfer(u, e, a, c, ref, k)]
             found == ValidOtps(u, ref, c)
         IN req' = [req EXCEPT ![p] =
                IF found = {} THEN Finish(r, "Invalid or expired OTP")
                ELSE [r EXCEPT !.pc = "idem", !.otpId = CHOOSE i \in found : TRUE]]
    /\ UNCHANGED <<balance, txns, otps, daily, lock, balance0, users, now>>

\* checkIdempotency: an existing row is returned as the cached response
TransferIdem(p) ==
    /\ req[p].op = "transfer" /\ req[p].pc = "idem"
    /\ LET found == CheckIdempotency(req[p].key)
       IN req' = [req EXCEPT ![p] =
              IF found # {}
              THEN [Finish(@, "duplicate")
                       EXCEPT !.txn = CHOOSE i \in found : TRUE,
                              !.cached = txns[CHOOSE i \in found : TRUE].status]
              ELSE [@ EXCEPT !.pc = "begin"]]
    /\ UNCHANGED <<balance, txns, otps, daily, lock, balance0, users, now>>

\* beginTransaction and the recipient lookup
TransferBegin(p) ==
    /\ req[p].op = "transfer" /\ req[p].pc = "begin"
    /\ LET found == Recipients(req[p].to)
       IN req' = [req EXCEPT ![p] =
              IF found = {} THEN Finish(@, "Recipient not found")
              ELSE [@ EXCEPT !.pc = "lock", !.rcpt = CHOOSE r \in found : TRUE]]
    /\ UNCHANGED <<balance, txns, otps, daily, lock, balance0, users, now>>

\* the two rows requested in argument order, sender first
UnsortedIds(userId, recipientId) == <<userId, recipientId>>

\* the order in which the unit requests its two wallet rows
LockOrder(userId, recipientId) == SortedIds(userId, recipientId)

\* SELECT user_id, balance .. FOR UPDATE: the next row of the order is locked
\* and read once no other unit holds it
TransferLock(p) ==
    /\ req[p].op = "transfer" /\ req[p].pc = "lock"
    /\ LET row == LockOrder(req[p].user, req[p].rcpt)[req[p].held + 1]
       IN /\ LockFree(row, p)
          /\ lock' = [lock EXCEPT ![row] = p]
          /\ req' = [req EXCEPT ![p] =
                 [@ EXCEPT !.held = @ + 1,
                           !.pc = IF req[p].held = 1 THEN "commit" ELSE "lock",
                           !.cur = IF row = req[p].user THEN balance[row] ELSE @,
                           !.rcur = IF row = req[p].rcpt THEN balance[row] ELSE @]]
    /\ UNCHANGED <<balance, txns, otps, daily, balance0, users, now>>

\* a unit without the balance check, on a store that does not enforce CHECK
TransferErrorUnguarded(senderBalance, recipientBalance, amount, key) ==
    IF DuplicateKey(key) THEN "ER_DUP_ENTRY" ELSE "ok"

\* the statement of the unit that throws, as its error, or "ok"
TransferError(senderBalance, recipientBalance, amount, key) ==
    IF senderBalance < amount THEN "Insufficient balance"
    ELSE IF ~ChkPositiveBalance(senderBalance - amount) THEN "chk_positive_balance"
    ELSE IF ~ChkPositiveBalance(recipientBalance + amount) THEN "chk_positive_balance"
    ELSE IF ~ChkPositiveAmount(amount) THEN "chk_positive_amount"
    ELSE IF DuplicateKey(key) THEN "ER_DUP_ENTRY"
    ELSE "ok"

\* the wallets as the UPDATEs that ran before the throwing statement left them
WalletsWritten(userId, recipientId, senderBalance, recipientBalance, amount) ==
    IF senderBalance < amount \/ ~ChkPositiveBalance(senderBalance - amount)
    THEN balance
    ELSE IF ~ChkPositiveBalance(recipientBalance + amount)
         THEN [balance EXCEPT ![userId] = senderBalance - amount]
         ELSE [[balance EXCEPT ![userId] = senderBalance - amount]
                        EXCEPT ![recipientId] = recipientBalance + amount]

\* a connection in autocommit mode: what ran before the throw stays written
Autocommit(written, before) == written

\* connection.rollback(): the rows the unit wrote are as before the unit
Rollback(written, before) == before

\* the TRANSFER_DEBIT row of the unit
DebitEntry(debitTransactionId, key, userId, recipientId, amount, senderBalance, newSenderBalance, creditTransactionId) ==
    [id |-> debitTransactionId, key |-> key, user |-> userId,
     type |-> "TRANSFER_DEBIT", amount |-> amount, before |-> senderBalance,
     after |-> newSenderBalance, status |-> "SUCCESS", cp |-> recipientId,
     cpTxn |-> creditTransactionId, reason |-> NoReason,
     created |-> now]

\* a credit row inserted without counterparty_transaction_id
CreditEntryUnlinked(creditTransactionId, userId, recipientId, amount, recipientBalance, newRecipientBalance, debitTransactionId) ==
    [id |-> creditTransactionId, key |-> NoKey, user |-> recipientId,
     type |-> "TRANSFER_CREDIT", amount |-> amount, before |-> recipientBalance,
     after |-> newRecipientBalance, status |-> "SUCCESS", cp |-> userId,
     cpTxn |-> 0, reason |-> NoReason,
     created |-> now]

\* the TRANSFER_CREDIT row of the unit
CreditEntry(creditTransactionId, userId, recipientId, amount, recipientBalance, newRecipientBalance, debitTransactionId) ==
    [id |-> creditTransactionId, key |-> NoKey, user |-> recipientId,
     type |-> "TRANSFER_CREDIT", amount |-> amount, before |-> recipientBalance,
     after |-> newRecipientBalance, status |-> "SUCCESS", cp |-> userId,
     cpTxn |-> debitTransactionId, reason |-> NoReason,
     created |-> now]

\* under both locks: check the balance read, write both wallets, insert the
\* two rows, mark the OTP used, add to the daily total, commit; any throw
\* rolls the unit back
TransferCommit(p) ==
    /\ req[p].op = "transfer" /\ req[p].pc = "commit"
    /\ LET userId == req[p].user
           recipientId == req[p].rcpt
           amount == req[p].amount
           senderBalance == req[p].cur
           recipientBalance == req[p].rcur
           newSenderBalance == senderBalance - amount
           newRecipientBalance == recipientBalance + amount
           debitTransactionId == Len(txns) + 1
           creditTransactionId == Len(txns) + 2
           error == TransferError(senderBalance, recipientBalance, amount, req[p].key)
       IN IF error # "ok"
          THEN /\ req' = [req EXCEPT ![p] = Finish(@, error)]
               /\ balance' = Rollback(WalletsWritten(userId, recipientId,
                                          senderBalance, recipientBalance, amount),
                                      balance)
               /\ UNCHANGED <<txns, otps, daily>>
          ELSE /\ balance' = UpdateWallet(UpdateWallet(balance, userId, newSenderBalance),
                                          recipientId, newRecipientBalance)
               /\ txns' = txns \o
                     << DebitEntry(debitTransactionId, req[p].key, userId,
                                   recipientId, amount, senderBalance,
                                   newSenderBalance, creditTransactionId),
                        CreditEntry(creditTransactionId, userId, recipientId,
                                    amount, recipientBalance,
                                    newRecipientBalance, debitTransactionId) >>
               /\ otps' = [otps EXCEPT ![req[p].otpId].used = TRUE]
               /\ daily' = UpdateDailyLimit(daily, userId, "transferred", amount)
               /\ req' = [req EXCEPT ![p] = [Finish(@, "success")
                                               EXCEPT !.txn = debitTransactionId]]
    /\ lock' = Release(p)
    /\ UNCHANGED <<balance0, users, now>>

----------------------------------------------------------------------------
(* The general workload: any user makes any call *)

Emails == {Email(u) : u \in Users} \cup {NoEmail}

Init == InitDay(NUsers, {0, 100, 200}, MaxReq)

Next ==
    \/ \E p \in Slots : AddMoneyStart(p, Users, {100}, {NoKey, 1})
    \/ \E p \in Slots : AddMoneyIdem(p)
    \/ \E p \in Slots : AddMoneyPending(p)
    \/ \E p \in Slots : AddMoneyFinalize(p)
    \/ GenerateTransferOTP(Users, Emails, {100}, MaxOtps)
    \/ OtpExpire
    \/ \E p \in Slots : TransferStart(p, Users, Emails, {-100, 100}, {Code},
                                     1..MaxOtps, {NoKey, 1})
    \/ \E p \in Slots : TransferIdem(p)
    \/ \E p \in Slots : TransferBegin(p)
    \/ \E p \in Slots : TransferLock(p)
    \/ \E p \in Slots : TransferCommit(p)

Spec == Init /\ [][Next]_vars

----------------------------------------------------------------------------
(* Properties of the general workload *)

Transfers == {p \in Slots : req[p].op = "transfer"}
AddMoneys == {p \in Slots : req[p].op = "addMoney"}
Committed(p) == req[p].res = "success"

\* C1: in every reachable state every wallet's committed balance is >= 0
NonNegativeBalance == \A u \in Users : balance[u] >= 0

\* C1 witness: one transfer has emptied its sender's wallet and a transfer
\* that would have driven a wallet below zero was rolled back
NonNegativeBalanceWitness ==
    \E p, q \in Transfers :
        /\ Committed(p) /\ balance[req[p].user] = 0
        /\ req[q].res \in {"Insufficient balance", "chk_positive_balance"}

\* C5 (as claimed): a successful addMoney adds exactly its amount to the
\* balance its wallet holds when the finalization unit runs
AddMoneyAddsToCurrentBalance ==
    [][\A p \in Slots :
          (req[p].op = "addMoney" /\ req[p].pc = "gateway" /\ req'[p].res = "success")
              => balance'[req[p].user] = balance[req[p].user] + req[p].amount]_vars

\* C7 (as claimed): at most one transfer commits for an OTP
OneRedemptionPerOtp ==
    \A i \in OtpIds :
        Cardinality({p \in Transfers : Committed(p) /\ req[p].otpId = i}) <= 1

\* C9 (as claimed): a transfer replayed with the arguments and idempotencyKey
\* of a committed transfer gets the cached result of that transfer's debit entry
TransferReplayCached ==
    \A p \in Transfers :
        (req[p].replayOf # 0 /\ req[p].pc = "done")
            => (req[p].res = "duplicate" /\ req[p].txn = req[p].replayOf)

KeysInUse == {req[p].key : p \in Slots} \ {NoKey}

\* C10: for every idempotencyKey at most one ledger entry carries it and at
\* most one call presenting it credits or debits a wallet
OneEntryPerKey ==
    \A k \in KeysInUse :
        /\ Cardinality({i \in TxnIds : txns[i].key = k}) <= 1
        /\ Cardinality({p \in Slots : req[p].key = k /\ Committed(p)}) <= 1

\* C10 witness: two calls with the same fresh key both passed the dedup check;
\* one inserted its entry and the other lost on the unique index
OneEntryPerKeyWitness ==
    \E p, q \in Slots :
        /\ req[p].key # NoKey /\ req[p].key = req[q].key
        /\ req[p].res = "ER_DUP_ENTRY"
        /\ req[q].txn # 0 /\ req[q].res # "duplicate"

----------------------------------------------------------------------------
(* The transfer workload: concurrent transfers only, each holder of an OTP *)
(* sending to any registered user                                          *)

TransferUsers == 3     \* registered users of the transfer workload
TransferCalls == 2     \* transfer calls of the transfer workload
TransferOtps == 2      \* OTPs issued in the transfer workload

UserEmails == {Email(u) : u \in Users}

InitTransfers == InitDay(TransferUsers, {100, 200}, TransferCalls)

NextTransfers ==
    \/ GenerateTransferOTP(Users, UserEmails, {100}, TransferOtps)
    \/ \E p \in Slots : TransferStart(p, Users, UserEmails, {100}, {Code},
                                     1..TransferOtps, {NoKey})
    \/ \E p \in Slots : TransferIdem(p)
    \/ \E p \in Slots : TransferBegin(p)
    \/ \E p \in Slots : TransferLock(p)
    \/ \E p \in Slots : TransferCommit(p)

SpecTransfers == InitTransfers /\ [][NextTransfers]_vars

\* every continuation of a started call is run, and a lock wait ends once
\* the row is free
FairSpecTransfers ==
    /\ SpecTransfers
    /\ \A p \in 1..TransferCalls :
          WF_vars(TransferIdem(p) \/ TransferBegin(p) \/ TransferLock(p)
                     \/ TransferCommit(p))

RECURSIVE SumOver(_, _)
SumOver(f, S) ==
    IF S = {} THEN 0
    ELSE LET x == CHOOSE y \in S : TRUE IN f[x] + SumOver(f, S \ {x})

\* C2 (as claimed): at every commit point the balances of all wallets add up
\* to what they added up to before the transfers
TransfersConserveTotal == SumOver(balance, Users) = SumOver(balance0, Users)

\* the step in which transfer p commits
TransferCommits(p) ==
    req[p].op = "transfer" /\ req[p].pc = "commit" /\ req'[p].res = "success"

\* C3 (as claimed): the commit of a transfer of amount a takes a from the
\* sender's balance, adds a to the recipient's, and leaves their sum unchanged
TransferMovesAmount ==
    [][\A p \in Slots :
          TransferCommits(p) =>
              LET s == req[p].user
                  r == req[p].rcpt
                  a == req[p].amount
              IN /\ balance'[s] = balance[s] - a
                 /\ balance'[r] = balance[r] + a
                 /\ balance'[s] + balance'[r] = balance[s] + balance[r]]_vars

\* the wallet row unit p is requesting
Wanted(p) == LockOrder(req[p].user, req[p].rcpt)[req[p].held + 1]

\* unit p waits for a row another unit holds
Waiting(p) ==
    req[p].op = "transfer" /\ req[p].pc = "lock" /\ ~LockFree(Wanted(p), p)

\* no set of units each waits for a row held by a unit of the set
NoCyclicWait ==
    \A S \in SUBSET Slots :
        S # {} => \E p \in S : ~(Waiting(p) /\ lock[Wanted(p)] \in S)

\* a unit holding a row requests only rows of a higher userId
AscendingLocks ==
    \A p \in Slots : \A u \in Users :
        (req[p].pc = "lock" /\ lock[u] = p) => u <= Wanted(p)

\* C6: no cyclic lock wait is ever reached, locks are requested in ascending
\* userId order, and under fair scheduling every started transfer ends
\* (commits or is rejected)
DeadlockFree ==
    /\ [](NoCyclicWait /\ AscendingLocks)
    /\ \A p \in 1..TransferCalls :
          (req[p].op = "transfer") ~> (req[p].pc = "done")

\* C6 witness: of two transfers in opposite directions between the same two
\* wallets one holds both rows and the other waits for its first row
DeadlockFreeWitness ==
    \E p, q \in Slots :
        /\ req[p].op = "transfer" /\ req[q].op = "transfer"
        /\ req[p].user = req[q].rcpt /\ req[p].rcpt = req[q].user
        /\ req[p].user # req[p].rcpt
        /\ req[p].pc = "commit"
        /\ Waiting(q) /\ req[q].held = 0

----------------------------------------------------------------------------
(* The burst workload (tests/concurrency.test.js, Test 1): user 1 holds    *)
(* BurstSize valid OTPs and redeems them in BurstSize concurrent transfers *)
(* of the same amount to users 2 and 3                                     *)

BurstSize == 3
BurstAmount == MIN_TRANSACTION_AMOUNT

InitBurst ==
    /\ users = Registered(3)
    /\ \E k \in 1..(BurstSize + 1) :
          balance = [u \in 1..3 |-> IF u = 1 THEN k * BurstAmount ELSE 0]
    /\ balance0 = balance
    /\ now = 0
    /\ txns = <<>>
    /\ otps = [i \in 1..BurstSize |-> OtpRow(1, i)]
    /\ daily = [u \in 1..3 |-> [added |-> 0, transferred |-> 0]]
    /\ lock = [u \in 1..3 |-> 0]
    /\ req = [p \in 1..BurstSize |-> IdleReq]

NextBurst ==
    \/ \E p \in Slots : TransferStart(p, {1}, {Email(2), Email(3)}, {BurstAmount},
                                     {Code}, {p}, {NoKey})
    \/ \E p \in Slots : TransferIdem(p)
    \/ \E p \in Slots : TransferBegin(p)
    \/ \E p \in Slots : TransferLock(p)
    \/ \E p \in Slots : TransferCommit(p)

SpecBurst == InitBurst /\ [][NextBurst]_vars

\* the number of the N transfers the opening balance supports
Supported == IF balance0[1] \div BurstAmount < BurstSize
             THEN balance0[1] \div BurstAmount ELSE BurstSize

AllDone == \A p \in Slots : req[p].pc = "done"

\* C4: of N concurrent transfers from one sender whose balance supports K of
\* them exactly K commit and N-K are rejected with 'Insufficient balance';
\* the sender's balance is the opening balance minus the committed amounts
\* and never below zero
BurstOutcome ==
    LET done == {p \in Slots : Committed(p)}
    IN /\ balance[1] >= 0
       /\ balance[1] = balance0[1] - Cardinality(done) * BurstAmount
       /\ \A p \in Slots : req[p].res \in {"none", "success", "Insufficient balance"}
       /\ AllDone => Cardinality(done) = Supported

\* C4 witness: the burst is over, some transfers committed and some were
\* rejected for insufficient balance
BurstOutcomeWitness ==
    /\ AllDone
    /\ \E p \in Slots : Committed(p)
    /\ \E p \in Slots : req[p].res = "Insufficient balance"

----------------------------------------------------------------------------
(* The replay workload: one user adds the per-transaction maximum under    *)
(* either of two idempotency keys, again and again                         *)

ReplayCalls == 3

InitReplay == InitDay(1, {0}, ReplayCalls)

NextReplay ==
    \/ \E p \in Slots : AddMoneyStart(p, Users, {MAX_TRANSACTION_AMOUNT}, {1, 2})
    \/ \E p \in Slots : AddMoneyIdem(p)
    \/ \E p \in Slots : AddMoneyPending(p)
    \/ \E p \in Slots : AddMoneyFinalize(p)

SpecReplay == InitReplay /\ [][NextReplay]_vars

\* C8 (as claimed): an addMoney replayed with the idempotencyKey of a
\* completed addMoney gets a duplicate result referencing the same entry,
\* whatever the day's running total; it inserts no row and calls no gateway
AddMoneyReplayCached ==
    \A p \in AddMoneys :
        req[p].replayOf # 0 =>
            /\ req[p].pc \in {"idem", "done"}
            /\ req[p].pc = "done" =>
                  (req[p].res = "duplicate" /\ req[p].txn = req[p].replayOf)

\* C11 (as claimed): an addMoney whose pending insert hits the unique index on
\* idempotency_key, because a concurrent request with the same fresh key
\* inserted first, is answered with the entry that now exists for the key and
\* not with a failure
DuplicateInsertAnswered ==
    [][\A p \in Slots :
          (/\ req[p].op = "addMoney" /\ req[p].pc = "pending"
           /\ req'[p] # req[p]
           /\ DuplicateKey(req[p].key))
              => /\ req'[p].res = "duplicate"
                 /\ req'[p].txn \in CheckIdempotency(req[p].key)]_vars

----------------------------------------------------------------------------
(* Properties of the transfer unit, on the general workload *)

\* transfer p is inside its unit: between beginTransaction and commit/rollback
TransferInUnit(p) ==
    req[p].op = "transfer" /\ req[p].pc \in {"begin", "lock", "commit"}

\* C12: a step of a transfer inside its atomic unit that does not commit,
\* and in particular one that throws (recipient not found, insufficient
\* balance, a failing write), leaves both wallets, the ledger, the OTP rows
\* and the daily totals exactly as they were, so the OTP stays redeemable
FailedUnitRollsBack ==
    [][\A p \in Slots :
          (TransferInUnit(p) /\ req'[p] # req[p] /\ req'[p].res # "success")
              => /\ balance' = balance
                 /\ txns' = txns
                 /\ otps' = otps
                 /\ daily' = daily]_vars

\* C12 witness: a transfer threw on its ledger insert, after both wallet
\* UPDATEs of the unit had run; the wallets hold what they held and the OTP
\* is still unused
FailedUnitRollsBackWitness ==
    \E p \in Transfers :
        /\ req[p].res \in {"ER_DUP_ENTRY", "chk_positive_amount"}
        /\ balance[req[p].user] = req[p].cur
        /\ balance[req[p].rcpt] = req[p].rcur
        /\ ~otps[req[p].otpId].used

----------------------------------------------------------------------------
(* The OTP workload: two users issue OTPs against one declared amount and  *)
(* present them, or a wrong code, in transfers of that amount or twice it  *)

OtpUsers == 2          \* registered users of the OTP workload
OtpCalls == 2          \* transfer calls of the OTP workload
OtpIssued == 2         \* OTPs issued in the OTP workload

WrongCode == 999999    \* a code generateOTP did not draw for the reference
OtpAmount == MIN_TRANSACTION_AMOUNT    \* the amount declared at issuance

InitOtp == InitDay(OtpUsers, {2 * OtpAmount}, OtpCalls)

NextOtp ==
    \/ GenerateTransferOTP(Users, UserEmails, {OtpAmount}, OtpIssued)
    \/ OtpExpire
    \/ \E p \in Slots : TransferStart(p, Users, UserEmails,
                                     {OtpAmount, 2 * OtpAmount},
                                     {Code, WrongCode}, 1..OtpIssued, {NoKey})
    \/ \E p \in Slots : TransferIdem(p)
    \/ \E p \in Slots : TransferBegin(p)
    \/ \E p \in Slots : TransferLock(p)
    \/ \E p \in Slots : TransferCommit(p)

SpecOtp == InitOtp /\ [][NextOtp]_vars

\* no otps row is of this user, reference and code, unused and unexpired
NoOtpRowMatches(u, ref, code) ==
    \A i \in OtpIds : \/ otps[i].user # u
                      \/ otps[i].ref # ref
                      \/ otps[i].code # code
                      \/ otps[i].used
                      \/ otps[i].expired

\* C13: a transfer call for which no OTP row matches (userId, referenceId,
\* code) unused and unexpired is rejected with 'Invalid or expired OTP' on
\* its first step, before any wallet lock, and wallets, ledger, OTP rows,
\* daily totals and locks are unchanged
InvalidOtpRejected ==
    [][\A p \in Slots :
          (/\ req[p].pc = "idle" /\ req'[p].op = "transfer"
           /\ NoOtpRowMatches(req'[p].user, req'[p].ref, req'[p].otp))
              => /\ req'[p].pc = "done"
                 /\ req'[p].res = "Invalid or expired OTP"
                 /\ req'[p].held = 0
                 /\ UNCHANGED <<balance, txns, otps, daily, lock>>]_vars

\* C13 witness: a transfer presenting the right code for its own reference
\* was rejected although the OTP was never used: it had expired
InvalidOtpRejectedWitness ==
    \E p \in Transfers :
        /\ req[p].res = "Invalid or expired OTP"
        /\ req[p].ref \in OtpIds
        /\ otps[req[p].ref].user = req[p].user
        /\ req[p].otp = otps[req[p].ref].code
        /\ otps[req[p].ref].expired /\ ~otps[req[p].ref].used

\* C14 (as claimed): no transfer commits with the sender as its recipient
SelfTransferRejected ==
    \A p \in Transfers : Committed(p) => req[p].rcpt # req[p].user

\* the recipient a user of the two declares when an OTP is issued to them
DeclaredRecipient(u) == CHOOSE v \in Users : v # u

\* C15 (as claimed): a transfer commits only with the amount and the
\* recipient declared to generateTransferOTP when its OTP was issued
TransferMatchesOtp ==
    \A p \in Transfers :
        Committed(p) => /\ req[p].amount = OtpAmount
                        /\ req[p].rcpt = DeclaredRecipient(req[p].user)

----------------------------------------------------------------------------
(* Properties of the ledger, on the general workload *)

Debits == {i \in TxnIds : txns[i].type = "TRANSFER_DEBIT"}
Credits == {i \in TxnIds : txns[i].type = "TRANSFER_CREDIT"}

\* entries i and j are the two sides of one transfer
Paired(i, j) ==
    /\ txns[i].cpTxn = j /\ txns[j].cpTxn = i
    /\ txns[i].amount = txns[j].amount
    /\ txns[i].user = txns[j].cp /\ txns[i].cp = txns[j].user
    /\ txns[i].status = "SUCCESS" /\ txns[j].status = "SUCCESS"

\* C16: in every reachable state every TRANSFER_DEBIT entry has exactly one
\* TRANSFER_CREDIT entry paired with it (same amount, owner and counterparty
\* swapped, each pointing at the other, both SUCCESS), and every
\* TRANSFER_CREDIT entry has exactly one such TRANSFER_DEBIT
PairedEntries ==
    /\ \A i \in Debits :
          /\ Cardinality({j \in Credits : txns[j].cpTxn = i}) = 1
          /\ txns[i].cpTxn \in Credits
          /\ Paired(i, txns[i].cpTxn)
    /\ \A j \in Credits :
          /\ Cardinality({i \in Debits : txns[i].cpTxn = j}) = 1
          /\ txns[j].cpTxn \in Debits
          /\ Paired(txns[j].cpTxn, j)

\* C16 witness: two transfers between different wallets have committed and
\* the ledger holds their two debits and two credits
PairedEntriesWitness ==
    /\ Cardinality(Debits) = 2 /\ Cardinality(Credits) = 2
    /\ \A p \in Slots : Committed(p) /\ req[p].op = "transfer"
                             /\ req[p].user # req[p].rcpt

----------------------------------------------------------------------------
(* The transfer-limit workload: user 1 holds three times the per-transaction *)
(* maximum, has OTPs issued for transfers of the maximum to user 2 and      *)
(* redeems them                                                             *)

LimitCalls == 3        \* transfer calls, and OTPs issued, of the workload

InitLimit ==
    /\ users = Registered(2)
    /\ balance = <<LimitCalls * MAX_TRANSACTION_AMOUNT, 0>>
    /\ balance0 = balance
    /\ now = 0
    /\ txns = <<>>
    /\ otps = <<>>
    /\ daily = [u \in 1..2 |-> [added |-> 0, transferred |-> 0]]
    /\ lock = [u \in 1..2 |-> 0]
    /\ req = [p \in 1..LimitCalls |-> IdleReq]

NextLimit ==
    \/ GenerateTransferOTP({1}, {Email(2)}, {MAX_TRANSACTION_AMOUNT}, LimitCalls)
    \/ \E p \in Slots : TransferStart(p, {1}, {Email(2)}, {MAX_TRANSACTION_AMOUNT},
                                     {Code}, 1..LimitCalls, {NoKey})
    \/ \E p \in Slots : TransferIdem(p)
    \/ \E p \in Slots : TransferBegin(p)
    \/ \E p \in Slots : TransferLock(p)
    \/ \E p \in Slots : TransferCommit(p)

SpecLimit == InitLimit /\ [][NextLimit]_vars

\* C17 (as claimed): no user's total_transferred of the day ever exceeds the
\* daily transfer ceiling, also when several OTPs are issued before any is
\* redeemed
TransferredWithinCeiling ==
    \A u \in Users : daily[u].transferred <= DAILY_TRANSFER_LIMIT

----------------------------------------------------------------------------
(* The add-money limit workload: one user makes concurrent addMoney calls   *)
(* of the per-transaction maximum, without idempotency keys                 *)

AddCalls == 3          \* addMoney calls of the workload

InitAdd == InitDay(1, {0}, AddCalls)

NextAdd ==
    \/ \E p \in Slots : AddMoneyStart(p, Users, {MAX_TRANSACTION_AMOUNT}, {NoKey})
    \/ \E p \in Slots : AddMoneyIdem(p)
    \/ \E p \in Slots : AddMoneyPending(p)
    \/ \E p \in Slots : AddMoneyFinalize(p)

SpecAdd == InitAdd /\ [][NextAdd]_vars

\* C18 (as claimed): no user's total_added of the day exceeds the daily
\* add-money ceiling at any commit point, however concurrent addMoney calls
\* of that user interleave
AddedWithinCeiling ==
    \A u \in Users : daily[u].added <= DAILY_ADD_MONEY_LIMIT

\* C19: an addMoney call of a valid amount that, added to the day's
\* total_added as the call finds it, exceeds the daily add-money ceiling is
\* rejected with the limit error on its first step: no ledger row, no
\* gateway call, wallet balance and total_added unchanged
OverLimitAddRejected ==
    [][\A p \in Slots :
          (/\ req[p].pc = "idle" /\ req'[p].op = "addMoney"
           /\ ValidateAmount(req'[p].amount) = "ok"
           /\ daily[req'[p].user].added + req'[p].amount > DAILY_ADD_MONEY_LIMIT)
              => /\ req'[p].pc = "done"
                 /\ req'[p].res = "Daily add money limit exceeded"
                 /\ req'[p].txn = 0
                 /\ UNCHANGED <<balance, txns, daily, otps, lock>>]_vars

\* C19 witness: after two successful calls a third was rejected with the
\* limit error; the ledger holds the two entries and the total is theirs
OverLimitAddRejectedWitness ==
    \E p \in AddMoneys :
        /\ req[p].res = "Daily add money limit exceeded"
        /\ Len(txns) = 2
        /\ daily[req[p].user].added = 2 * MAX_TRANSACTION_AMOUNT
        /\ balance[req[p].user] = 2 * MAX_TRANSACTION_AMOUNT

----------------------------------------------------------------------------
(* The sequential add-money workload: one user makes addMoney calls one     *)
(* after the other, each of 300,000 or of the per-transaction maximum       *)

ScenarioCalls == 4     \* addMoney calls of the workload

\* 300,000: one and a half times the per-transaction maximum
ScenarioAmount == MAX_TRANSACTION_AMOUNT + MAX_TRANSACTION_AMOUNT \div 2

InitScenario == InitDay(1, {0}, ScenarioCalls)

\* a call is made once every earlier call has returned or thrown
SequentialAddMoneyStart(p) ==
    /\ \A q \in Slots : req[q].pc \in {"idle", "done"}
    /\ AddMoneyStart(p, Users, {ScenarioAmount, MAX_TRANSACTION_AMOUNT}, {NoKey})

NextScenario ==
    \/ \E p \in Slots : SequentialAddMoneyStart(p)
    \/ \E p \in Slots : AddMoneyIdem(p)
    \/ \E p \in Slots : AddMoneyPending(p)
    \/ \E p \in Slots : AddMoneyFinalize(p)

SpecScenario == InitScenario /\ [][NextScenario]_vars

Succeeded(S) == {q \in S : req[q].res = "success"}

\* C20 (as claimed): of two sequential addMoney calls of 300,000 each the
\* first is accepted and, its payment succeeding, the second fails with the
\* daily-limit error and total_added remains 300,000
ScenarioAsClaimed ==
    /\ (req[1].pc = "done" /\ req[1].amount = ScenarioAmount)
           => req[1].res \in {"success", "failed"}
    /\ (/\ req[1].res = "success" /\ req[1].amount = ScenarioAmount
        /\ req[2].pc = "done" /\ req[2].amount = ScenarioAmount
        /\ req[3].pc = "idle")
           => /\ req[2].res = "Daily add money limit exceeded"
              /\ daily[1].added = ScenarioAmount

\* C20 (amended): in sequential addMoney calls of one user on one day a call
\* of 300,000 is rejected by amount validation and writes nothing; a call of
\* 200,000 is accepted until two such calls have succeeded, and every later
\* one fails with the daily-limit error; total_added is 200,000 for each
\* successful call and never more than 400,000
ScenarioAmended ==
    /\ \A p \in Slots :
          (req[p].pc = "done" /\ req[p].amount = ScenarioAmount)
              => req[p].res = "Maximum transaction amount" /\ req[p].txn = 0
    /\ \A p \in Slots :
          (req[p].pc = "done" /\ req[p].amount = MAX_TRANSACTION_AMOUNT)
              => IF Cardinality(Succeeded(1..(p - 1))) >= 2
                 THEN req[p].res = "Daily add money limit exceeded"
                         /\ req[p].txn = 0
                 ELSE req[p].res \in {"success", "failed"}
    /\ daily[1].added = MAX_TRANSACTION_AMOUNT * Cardinality(Succeeded(Slots))
    /\ daily[1].added <= 2 * MAX_TRANSACTION_AMOUNT

\* C20 witness: a call of 300,000 was rejected by validation, two calls of
\* 200,000 succeeded and a third was rejected for the daily limit, with
\* total_added at 400,000
ScenarioAmendedWitness ==
    /\ \E p \in Slots : /\ req[p].amount = ScenarioAmount
                         /\ req[p].res = "Maximum transaction amount"
    /\ Cardinality(Succeeded(Slots)) = 2
    /\ \E p \in Slots : req[p].res = "Daily add money limit exceeded"
    /\ daily[1].added = 2 * MAX_TRANSACTION_AMOUNT

----------------------------------------------------------------------------
(* Daily totals against the ledger, on the general workload *)

Amounts == [i \in TxnIds |-> txns[i].amount]

\* the SUCCESS ADD_MONEY entries of user u
SuccessfulAdds(u) ==
    {i \in TxnIds : /\ txns[i].user = u /\ txns[i].type = "ADD_MONEY"
                    /\ txns[i].status = "SUCCESS"}

\* C21: in every reachable state total_added of a user is the sum of the
\* amounts of that user's SUCCESS ADD_MONEY entries of the day and
\* total_transferred is the sum of the amounts of that user's TRANSFER_DEBIT
\* entries; FAILED, PENDING and rejected operations count for nothing
DailyTotalsMatchLedger ==
    \A u \in Users :
        /\ daily[u].added = SumOver(Amounts, SuccessfulAdds(u))
        /\ daily[u].transferred =
              SumOver(Amounts, {i \in Debits : txns[i].user = u})

\* C21 witness: a user has a FAILED and a SUCCESS ADD_MONEY entry and the
\* total added is the amount of the successful one
DailyTotalsMatchLedgerWitness ==
    \E u \in Users :
        /\ \E i \in TxnIds : txns[i].user = u /\ txns[i].status = "FAILED"
        /\ SuccessfulAdds(u) # {}
        /\ daily[u].added = 100

----------------------------------------------------------------------------
(* The gateway workload: addMoney calls and transfers on the same wallets, *)
(* with the store able to refuse the second unit of an addMoney whose       *)
(* wallet row another unit holds                                            *)

GatewayCalls == 2      \* addMoney / transfer calls of the gateway workload

\* the payment succeeded and the UPDATE wallets of the second unit waits for
\* a row another unit holds until innodb_lock_wait_timeout: the statement
\* throws, the catch block rolls back and rethrows
AddMoneyFinalizeThrows(p) ==
    /\ req[p].op = "addMoney" /\ req[p].pc = "gateway"
    /\ ~LockFree(req[p].user, p)
    /\ req' = [req EXCEPT ![p] = Finish(@, "ER_LOCK_WAIT_TIMEOUT")]
    /\ lock' = Release(p)
    /\ UNCHANGED <<balance, txns, otps, daily, balance0, users, now>>

InitGateway == InitDay(2, {100}, GatewayCalls)

NextGateway ==
    \/ \E p \in Slots : AddMoneyStart(p, Users, {100}, {NoKey})
    \/ \E p \in Slots : AddMoneyIdem(p)
    \/ \E p \in Slots : AddMoneyPending(p)
    \/ \E p \in Slots : AddMoneyFinalize(p)
    \/ \E p \in Slots : AddMoneyFinalizeThrows(p)
    \/ GenerateTransferOTP(Users, UserEmails, {100}, 1)
    \/ \E p \in Slots : TransferStart(p, Users, UserEmails, {100}, {Code},
                                     {1}, {NoKey})
    \/ \E p \in Slots : TransferIdem(p)
    \/ \E p \in Slots : TransferBegin(p)
    \/ \E p \in Slots : TransferLock(p)
    \/ \E p \in Slots : TransferCommit(p)

SpecGateway == InitGateway /\ [][NextGateway]_vars

\* C22 (as claimed): an ADD_MONEY entry is PENDING only while the call that
\* wrote it is still at its gateway call or finalization: once the call has
\* returned or thrown, gateway or finalization failures included, the entry
\* is SUCCESS or FAILED
PendingEntryFinalized ==
    \A i \in TxnIds :
        txns[i].status = "PENDING"
            => \E p \in AddMoneys : req[p].txn = i /\ req[p].pc = "gateway"

\* C23: when the gateway reports failure the call's entry goes from PENDING
\* to FAILED with the gateway's message as failure_reason, no row is added,
\* the wallet balances and the daily totals are untouched, and the call
\* returns a result (success: false) for that entry
GatewayFailureRecorded ==
    [][\A p \in Slots :
          (req[p].op = "addMoney" /\ req[p].pc = "gateway"
              /\ req'[p].res = "failed")
              => /\ txns[req[p].txn].status = "PENDING"
                 /\ txns'[req[p].txn].status = "FAILED"
                 /\ txns'[req[p].txn].reason = GatewayFailure
                 /\ req'[p].txn = req[p].txn
                 /\ Len(txns') = Len(txns)
                 /\ balance' = balance
                 /\ daily' = daily]_vars

\* C23 witness: a call returned the failure result; its entry is FAILED and
\* its wallet and daily total are as the day opened
GatewayFailureRecordedWitness ==
    \E p \in AddMoneys :
        /\ req[p].res = "failed"
        /\ txns[req[p].txn].status = "FAILED"
        /\ balance[req[p].user] = balance0[req[p].user]
        /\ daily[req[p].user].added = 0

\* C24: while the gateway call of an addMoney is in flight the call holds no
\* wallet row lock (its first unit has committed, its second has not begun)
GatewayCallHoldsNoLock ==
    \A p \in AddMoneys :
        req[p].pc = "gateway" => \A u \in Users : lock[u] # p

\* C24 witness: while an addMoney is at its gateway call another call on the
\* same wallet, begun after the PENDING write, has locked the row and
\* committed
GatewayCallHoldsNoLockWitness ==
    \E p \in AddMoneys : \E q \in Slots :
        /\ req[p].pc = "gateway"
        /\ req[q].user = req[p].user
        /\ Committed(q) /\ req[q].txn > req[p].txn

\* C25 (as claimed): the status of an ADD_MONEY entry changes exactly once,
\* from PENDING to SUCCESS or FAILED (never again, and it has changed by the
\* time its call has returned or thrown); TRANSFER_DEBIT and TRANSFER_CREDIT
\* entries are never PENDING
StatusChangesOnce ==
    /\ [](\A i \in TxnIds : txns[i].type # "ADD_MONEY" => txns[i].status # "PENDING")
    /\ [](\A p \in AddMoneys :
            (req[p].pc = "done" /\ req[p].txn # 0 /\ req[p].res # "duplicate")
                => txns[req[p].txn].status \in {"SUCCESS", "FAILED"})
    /\ [][\A i \in TxnIds :
            txns'[i].status # txns[i].status
                => /\ txns[i].type = "ADD_MONEY"
                   /\ txns[i].status = "PENDING"
                   /\ txns'[i].status \in {"SUCCESS", "FAILED"}]_vars

----------------------------------------------------------------------------
(* The add-money input workload: one user calls addMoney with amounts on    *)
(* both sides of the per-transaction bounds, with and without a third       *)
(* decimal, with and without an idempotency key                             *)

ValidateCalls == 3     \* addMoney calls of the input workload

ThreeDecimals == 123   \* the thousandths of an amount such as 100.123

InitValidate == InitDay(1, {0}, ValidateCalls)

NextValidate ==
    \/ \E p \in Slots :
          AddMoneyCall(p, Users,
                       {MIN_TRANSACTION_AMOUNT \div 2, MIN_TRANSACTION_AMOUNT,
                        MAX_TRANSACTION_AMOUNT, MAX_TRANSACTION_AMOUNT + 1},
                       {0, ThreeDecimals}, {NoKey, 1})
    \/ \E p \in Slots : AddMoneyIdem(p)
    \/ \E p \in Slots : AddMoneyPending(p)
    \/ \E p \in Slots : AddMoneyFinalize(p)

SpecValidate == InitValidate /\ [][NextValidate]_vars

\* the amount, in thousandths of a rupee, is below the minimum, above the
\* maximum or not a multiple of a hundredth of a rupee
OutOfBounds(amount, mills) ==
    LET m == amount * 1000 + mills
    IN \/ m < MIN_TRANSACTION_AMOUNT * 1000
       \/ m > MAX_TRANSACTION_AMOUNT * 1000
       \/ m % 10 # 0

ValidationErrors ==
    {"Minimum transaction amount", "Maximum transaction amount",
     "Amount can have maximum 2 decimal places"}

\* C26: an addMoney call with an amount below the per-transaction minimum,
\* above the maximum or with more than 2 decimal places ends on its first
\* step with a validation error: no ledger row, no gateway call, wallets,
\* daily totals and locks unchanged
InvalidAmountRejected ==
    [][\A p \in Slots :
          (/\ req[p].pc = "idle" /\ req'[p].op = "addMoney"
           /\ OutOfBounds(req'[p].amount, req'[p].mills))
              => /\ req'[p].pc = "done"
                 /\ req'[p].res \in ValidationErrors
                 /\ req'[p].txn = 0
                 /\ UNCHANGED <<balance, txns, daily, otps, lock>>]_vars

\* C26 witness: three calls were rejected, one for each validation error,
\* and the ledger is empty and the wallet as the day opened
InvalidAmountRejectedWitness ==
    /\ \A e \in ValidationErrors : \E p \in AddMoneys : req[p].res = e
    /\ txns = <<>>
    /\ balance = balance0

\* the results of a call rejected at validation, limit check or dedup
Rejections ==
    ValidationErrors \cup {"Daily add money limit exceeded", "duplicate"}

\* the positions of an addMoney call, in the order the code reaches them
AddMoneyOrder ==
    [idle |-> {"idem", "done"}, idem |-> {"pending", "done"},
     pending |-> {"gateway", "done"}, gateway |-> {"done"}, done |-> {}]

----------------------------------------------------------------------------
(* register(name, email, password) of services/authService.js, and the     *)
(* registration workload: calls registering a taken or a fresh email        *)

UserIds == 1..Len(users)

\* SELECT id FROM users WHERE email = ?
ExistingUsers(email) == {u \in UserIds : users[u].email = email}

\* a users table without the unique index on email
NoUniqueEmail(email) == FALSE

\* email VARCHAR(255) UNIQUE: the INSERT of a second row with the email fails
DuplicateEmail(email) == ExistingUsers(email) # {}

\* beginTransaction and the SELECT of the users holding the email
RegisterStart(p, E) ==
    /\ NextSlot(p)
    /\ \E e \in E :
         LET r == [IdleReq EXCEPT !.op = "register", !.to = e]
         IN req' = [req EXCEPT ![p] =
                IF ExistingUsers(e) # {} THEN Finish(r, "Email already registered")
                ELSE [r EXCEPT !.pc = "insert"]]
    /\ UNCHANGED <<users, balance, txns, otps, daily, lock, balance0, now>>

\* INSERT INTO users, INSERT INTO wallets with balance 0.00 for the new id,
\* commit; a throw rolls both back
RegisterInsert(p) ==
    /\ req[p].op = "register" /\ req[p].pc = "insert"
    /\ LET userId == Len(users) + 1
       IN IF DuplicateEmail(req[p].to)
          THEN /\ req' = [req EXCEPT ![p] = Finish(@, "ER_DUP_ENTRY")]
               /\ UNCHANGED <<users, balance, daily, lock, balance0>>
          ELSE /\ users' = Append(users, [email |-> req[p].to])
               /\ balance' = [u \in Users \cup {userId} |->
                                 IF u = userId THEN 0 ELSE balance[u]]
               /\ balance0' = [u \in Users \cup {userId} |->
                                  IF u = userId THEN 0 ELSE balance0[u]]
               /\ daily' = [u \in Users \cup {userId} |->
                               IF u = userId THEN [added |-> 0, transferred |-> 0]
                               ELSE daily[u]]
               /\ lock' = [u \in Users \cup {userId} |->
                              IF u = userId THEN 0 ELSE lock[u]]
               /\ req' = [req EXCEPT ![p] = [Finish(@, "success")
                                               EXCEPT !.user = userId]]
    /\ UNCHANGED <<txns, otps, now>>

RegisterCalls == 3     \* register calls of the registration workload

InitRegister == InitDay(1, {0}, RegisterCalls)

NextRegister ==
    \/ \E p \in Slots : RegisterStart(p, {1, 2, 3})
    \/ \E p \in Slots : RegisterInsert(p)

SpecRegister == InitRegister /\ [][NextRegister]_vars

\* C27: in every reachable state each registered user has exactly one wallet
\* and no two users share an email; a registration creates one user and one
\* wallet of balance 0 in one step, and a registration with an email already
\* registered, also by a concurrent registration, creates neither
OneWalletPerUser ==
    /\ [](DOMAIN balance = UserIds)
    /\ [](\A u, v \in UserIds : users[u].email = users[v].email => u = v)
    /\ [][\A p \in Slots :
            (req'[p].op = "register" /\ req'[p] # req[p])
                => IF \E u \in UserIds : users[u].email = req'[p].to
                   THEN users' = users /\ balance' = balance
                   ELSE \/ users' = users /\ balance' = balance
                        \/ /\ users' = Append(users, [email |-> req[p].to])
                           /\ DOMAIN balance' = DOMAIN balance \cup {Len(users')}
                           /\ balance'[Len(users')] = 0
                           /\ \A u \in DOMAIN balance : balance'[u] = balance[u]]_vars

\* C27 witness: of two concurrent registrations of one fresh email one
\* created the user and the wallet and the other failed on the unique index;
\* a registration of the email registered before was refused
OneWalletPerUserWitness ==
    \E p, q, r \in Slots :
        /\ req[p].op = "register" /\ req[p].res = "success"
        /\ req[q].to = req[p].to /\ req[q].res = "ER_DUP_ENTRY"
        /\ req[r].res = "Email already registered"
        /\ Len(users) = 2 /\ balance[2] = 0

----------------------------------------------------------------------------
(* getTransactionHistory(userId, page, limit), and the history workload:    *)
(* addMoney calls of two users over two seconds, and history calls          *)

\* a second passes; d is the last second of the workload
Tick(d) ==
    /\ now < d
    /\ now' = now + 1
    /\ UNCHANGED <<users, balance, txns, otps, daily, lock, req, balance0>>

\* WHERE t.user_id = ?
Owned(userId) == {i \in DOMAIN txns : txns[i].user = userId}

\* ORDER BY t.created_at DESC: the orders the sort may produce (created_at has
\* whole seconds and the rows of one second come in any order)
CreatedDesc(userId) ==
    {s \in [1..Cardinality(Owned(userId)) -> Owned(userId)] :
        \A i, j \in DOMAIN s :
            i < j => s[i] # s[j] /\ txns[s[i]].created >= txns[s[j]].created}

\* an offset that skips the first page too
OffsetFromPage(page, limit) == page * limit

\* const offset = (page - 1) * limit
Offset(page, limit) == (page - 1) * limit

\* LIMIT ? OFFSET ?
LimitOffset(s, limit, offset) ==
    [k \in 1..(IF Len(s) - offset < limit
               THEN (IF Len(s) < offset THEN 0 ELSE Len(s) - offset)
               ELSE limit) |-> s[offset + k]]

\* Math.ceil(total / limit)
TotalPages(total, limit) == (total + limit - 1) \div limit

\* the page query
GetHistorySelect(p, U, P, L) ==
    /\ NextSlot(p)
    /\ \E userId \in U, page \in P, limit \in L :
         \E s \in CreatedDesc(userId) :
            req' = [req EXCEPT ![p] =
                [IdleReq EXCEPT !.op = "history", !.pc = "count",
                                !.user = userId, !.page = page, !.limit = limit,
                                !.rows = LimitOffset(s, limit, Offset(page, limit))]]
    /\ UNCHANGED <<users, balance, txns, otps, daily, lock, balance0, now>>

\* the COUNT(*) query and the returned pagination
GetHistoryCount(p) ==
    /\ req[p].op = "history" /\ req[p].pc = "count"
    /\ LET total == Cardinality(Owned(req[p].user))
       IN req' = [req EXCEPT ![p] =
              [Finish(@, "success") EXCEPT !.total = total,
                   !.pages = TotalPages(total, req[p].limit)]]
    /\ UNCHANGED <<users, balance, txns, otps, daily, lock, balance0, now>>

HistoryCalls == 4      \* calls of the history workload
LastSecond == 1        \* seconds that pass in the history workload

InitHistory == InitDay(2, {0}, HistoryCalls)

NextHistory ==
    \/ \E p \in Slots : AddMoneyStart(p, Users, {MIN_TRANSACTION_AMOUNT}, {NoKey})
    \/ \E p \in Slots : AddMoneyIdem(p)
    \/ \E p \in Slots : AddMoneyPending(p)
    \/ \E p \in Slots : AddMoneyFinalize(p)
    \/ Tick(LastSecond)
    \/ \E p \in Slots : GetHistorySelect(p, {1}, {1, 2}, {1, 2})
    \/ \E p \in Slots : GetHistoryCount(p)

SpecHistory == InitHistory /\ [][NextHistory]_vars

\* C28: a step of a history call changes no table; the page it selects holds
\* distinct entries of the user in descending created_at, as many as the
\* user's entries leave from position (page-1)*limit on, the k-th of them
\* standing at position (page-1)*limit + k of the user's entries by
\* descending created_at; the total it returns is the number of the user's
\* entries and totalPages is the least number of pages that holds them
HistoryPage ==
    [][\A p \in Slots :
        (req'[p].op = "history" /\ req'[p] # req[p]) =>
          LET r == req'[p]
              mine == {i \in DOMAIN txns : txns[i].user = r.user}
              skipped == (r.page - 1) * r.limit
              left == Cardinality(mine) - skipped
              newer(i) == {j \in mine : txns[j].created > txns[i].created}
              notOlder(i) == {j \in mine : txns[j].created >= txns[i].created}
          IN /\ UNCHANGED <<users, balance, txns, otps, daily, lock, balance0>>
             /\ r.pc = "count" =>
                  /\ \A k \in DOMAIN r.rows : r.rows[k] \in mine
                  /\ \A k, l \in DOMAIN r.rows : k < l =>
                        /\ r.rows[k] # r.rows[l]
                        /\ txns[r.rows[k]].created >= txns[r.rows[l]].created
                  /\ Len(r.rows) = IF left <= 0 THEN 0
                                   ELSE IF left < r.limit THEN left ELSE r.limit
                  /\ \A k \in DOMAIN r.rows :
                        /\ Cardinality(newer(r.rows[k])) <= skipped + k - 1
                        /\ Cardinality(notOlder(r.rows[k])) >= skipped + k
             /\ r.pc = "done" =>
                  /\ r.total = Cardinality(mine)
                  /\ r.pages * r.limit >= r.total
                  /\ (r.pages - 1) * r.limit < r.total]_vars

\* C28 witness: a history call returned the second page of one entry per page
\* while the user owned two entries of the same second, and
\* the other user owned an entry too
HistoryPageWitness ==
    \E p \in Slots :
        /\ req[p].op = "history" /\ req[p].pc = "done"
        /\ req[p].page = 2 /\ req[p].limit = 1 /\ Len(req[p].rows) = 1
        /\ req[p].total = 2 /\ req[p].pages = 2
        /\ \E i, j \in Owned(req[p].user) :
              i # j /\ txns[i].created = txns[j].created
        /\ \E i \in DOMAIN txns : txns[i].user # req[p].user

----------------------------------------------------------------------------
(* The idempotency guard and entries that are not terminal yet              *)

\* success: txn.status === TRANSACTION_STATUS.SUCCESS, of the row as read
CachedSuccess(p) == req[p].cached = "SUCCESS"

\* C29 (as claimed): a duplicate result is only built from a terminal entry,
\* and its success flag says what the entry's terminal status says
CachedResultIsFinal ==
    \A p \in Slots :
        req[p].res = "duplicate" =>
            /\ req[p].cached \in {"SUCCESS", "FAILED"}
            /\ txns[req[p].txn].status # "PENDING"
                  => (CachedSuccess(p) <=> txns[req[p].txn].status = "SUCCESS")

----------------------------------------------------------------------------
(* generateTransferOTP query by query, and the issuing workload: a sender   *)
(* who holds two OTPs redeems them while further OTPs are asked for          *)

\* parseFloat(wallets[0].balance) < amount
InsufficientBalance(userId, amount) == balance[userId] < amount

\* validateAmount, the recipient query and the self-transfer check
GenerateOtpStart(p, U, E, A) ==
    /\ NextSlot(p)
    /\ \E userId \in U, toEmail \in E, amount \in A :
         LET r == [IdleReq EXCEPT !.op = "generateTransferOTP", !.user = userId,
                                  !.to = toEmail, !.amount = amount]
         IN req' = [req EXCEPT ![p] =
                IF ValidateAmount(amount) # "ok" THEN Finish(r, ValidateAmount(amount))
                ELSE IF Recipients(toEmail) = {} THEN Finish(r, "Recipient not found")
                ELSE IF (CHOOSE v \in Recipients(toEmail) : TRUE) = userId
                     THEN Finish(r, "Cannot transfer to yourself")
                ELSE [r EXCEPT !.pc = "balance",
                               !.rcpt = CHOOSE v \in Recipients(toEmail) : TRUE]]
    /\ UNCHANGED <<users, balance, txns, otps, daily, lock, balance0, now>>

\* the balance query
GenerateOtpBalance(p) ==
    /\ req[p].op = "generateTransferOTP" /\ req[p].pc = "balance"
    /\ req' = [req EXCEPT ![p] =
           IF InsufficientBalance(req[p].user, req[p].amount)
           THEN Finish(@, "Insufficient balance")
           ELSE [@ EXCEPT !.pc = "limit"]]
    /\ UNCHANGED <<users, balance, txns, otps, daily, lock, balance0, now>>

\* checkDailyTransferLimit
GenerateOtpLimit(p) ==
    /\ req[p].op = "generateTransferOTP" /\ req[p].pc = "limit"
    /\ req' = [req EXCEPT ![p] =
           IF DailyTransferExceeded(req[p].user, req[p].amount)
           THEN Finish(@, "Daily transfer limit exceeded")
           ELSE [@ EXCEPT !.pc = "insert"]]
    /\ UNCHANGED <<users, balance, txns, otps, daily, lock, balance0, now>>

\* the INSERT INTO otps under a new reference_id, and the return
GenerateOtpInsert(p) ==
    /\ req[p].op = "generateTransferOTP" /\ req[p].pc = "insert"
    /\ otps' = Append(otps, OtpRow(req[p].user, Len(otps) + 1))
    /\ req' = [req EXCEPT ![p] = [Finish(@, "success") EXCEPT !.ref = Len(otps) + 1]]
    /\ UNCHANGED <<users, balance, txns, daily, lock, balance0, now>>

IssueCalls == 4        \* calls of the issuing workload
IssueHeld == 2         \* OTPs the sender holds when it starts
IssueSeconds == 1      \* seconds that pass in the issuing workload

InitIssue ==
    /\ users = Registered(2)
    /\ balance = <<(IssueHeld + 1) * MAX_TRANSACTION_AMOUNT, 0>>
    /\ balance0 = balance
    /\ now = 0
    /\ txns = <<>>
    /\ otps = [i \in 1..IssueHeld |-> OtpRow(1, i)]
    /\ daily = [u \in 1..2 |-> [added |-> 0, transferred |-> 0]]
    /\ lock = [u \in 1..2 |-> 0]
    /\ req = [p \in 1..IssueCalls |-> IdleReq]

NextIssue ==
    \/ \E p \in Slots : GenerateOtpStart(p, Users, {Email(1), Email(2), NoEmail},
                            {MAX_TRANSACTION_AMOUNT, MAX_TRANSACTION_AMOUNT + 1})
    \/ \E p \in Slots : GenerateOtpBalance(p)
    \/ \E p \in Slots : GenerateOtpLimit(p)
    \/ \E p \in Slots : GenerateOtpInsert(p)
    \/ \E p \in Slots : TransferStart(p, {1}, {Email(2)}, {MAX_TRANSACTION_AMOUNT},
                                     {Code}, 1..IssueHeld, {NoKey})
    \/ \E p \in Slots : TransferIdem(p)
    \/ \E p \in Slots : TransferBegin(p)
    \/ \E p \in Slots : TransferLock(p)
    \/ \E p \in Slots : TransferCommit(p)
    \/ Tick(IssueSeconds)

SpecIssue == InitIssue /\ [][NextIssue]_vars

\* C31: a generateTransferOTP call moves on only when the check it has just
\* made passed in the state it was made in (amount within bounds, recipient
\* registered and not the sender; balance at least the amount; the day's
\* total_transferred plus the amount within the ceiling); an OTP row is only
\* ever inserted by a call that passed them all, unused, under a reference_id
\* no row carries and expiring the validity window after now; a call that is
\* rejected inserts none, and no step of a call changes wallets, ledger
\* entries or daily totals
OtpIssuedAfterChecks ==
    [][/\ \A p \in Slots :
            (req'[p].op = "generateTransferOTP" /\ req'[p] # req[p]) =>
              LET r == req'[p]
              IN /\ UNCHANGED <<users, balance, txns, daily, lock>>
                 /\ r.pc = "balance" =>
                      /\ req[p].pc = "idle"
                      /\ r.amount >= MIN_TRANSACTION_AMOUNT
                      /\ r.amount <= MAX_TRANSACTION_AMOUNT
                      /\ \E v \in 1..Len(users) :
                            users[v].email = r.to /\ v # r.user
                 /\ r.pc = "limit" =>
                      req[p].pc = "balance" /\ balance[r.user] >= r.amount
                 /\ r.pc = "insert" =>
                      /\ req[p].pc = "limit"
                      /\ daily[r.user].transferred + r.amount <= DAILY_TRANSFER_LIMIT
                 /\ r.res = "success" =>
                      /\ req[p].pc = "insert"
                      /\ Len(otps') = Len(otps) + 1
                      /\ \A i \in DOMAIN otps : otps'[i] = otps[i]
                      /\ LET row == otps'[Len(otps')]
                         IN /\ row.user = r.user /\ ~row.used /\ ~row.expired
                            /\ row.expires = now + OTP_VALIDITY_MINUTES * 60
                            /\ \A i \in DOMAIN otps : otps[i].ref # row.ref
                            /\ r.ref = row.ref
                 /\ r.res # "success" => otps' = otps
       /\ Len(otps') > Len(otps) =>
            \E p \in Slots : /\ req[p].op = "generateTransferOTP"
                             /\ req[p].pc = "insert"
                             /\ req'[p].res = "success"]_vars

\* C31 witness: after a second had passed a call was given an OTP, and a call
\* of the sender who had transferred twice the per-transaction maximum was
\* refused on the daily transfer ceiling
OtpIssuedAfterChecksWitness ==
    \E p, q \in Slots :
        /\ req[p].op = "generateTransferOTP" /\ req[p].res = "success"
        /\ otps[req[p].ref].expires > OTP_VALIDITY_MINUTES * 60
        /\ req[q].op = "generateTransferOTP"
        /\ req[q].res = "Daily transfer limit exceeded"

----------------------------------------------------------------------------
(* The ledger as an audit chain of each wallet                              *)

\* the entries a step makes SUCCESS: inserted so, or updated from PENDING
MadeSuccess ==
    {i \in DOMAIN txns' :
        /\ txns'[i].status = "SUCCESS"
        /\ IF i \in DOMAIN txns THEN txns[i].status # "SUCCESS" ELSE TRUE}

\* C32 (as claimed): an entry that a commit makes SUCCESS carries as
\* balance_before the owner's wallet balance before that commit and as
\* balance_after the balance after it
AuditChain ==
    [][\A i \in MadeSuccess :
          /\ txns'[i].before = balance[txns'[i].user]
          /\ txns'[i].after = balance'[txns'[i].user]]_vars

----------------------------------------------------------------------------
(* The amounts workload: transfers called with amounts that validateAmount  *)
(* refuses, under OTPs issued for the per-transaction minimum               *)

AmountCalls == 2       \* transfer calls of the amounts workload
AmountOtps == 2        \* OTPs issued in the amounts workload

InitAmounts == InitDay(2, {MAX_TRANSACTION_AMOUNT + 1}, AmountCalls)

NextAmounts ==
    \/ GenerateTransferOTP(Users, UserEmails, {MIN_TRANSACTION_AMOUNT}, AmountOtps)
    \/ \E p \in Slots : TransferStart(p, Users, UserEmails,
                            {-MIN_TRANSACTION_AMOUNT, 0, MIN_TRANSACTION_AMOUNT \div 2,
                             MAX_TRANSACTION_AMOUNT + 1},
                            {Code}, 1..AmountOtps, {NoKey})
    \/ \E p \in Slots : TransferIdem(p)
    \/ \E p \in Slots : TransferBegin(p)
    \/ \E p \in Slots : TransferLock(p)
    \/ \E p \in Slots : TransferCommit(p)

SpecAmounts == InitAmounts /\ [][NextAmounts]_vars

\* C33 (as claimed): every ledger entry's amount lies within the
\* per-transaction minimum and maximum, and no transfer called with an amount
\* outside them commits
EntryAmountsWithinBounds ==
    /\ \A i \in DOMAIN txns :
          /\ txns[i].amount >= MIN_TRANSACTION_AMOUNT
          /\ txns[i].amount <= MAX_TRANSACTION_AMOUNT
    /\ \A p \in Transfers :
          Committed(p) => /\ req[p].amount >= MIN_TRANSACTION_AMOUNT
                          /\ req[p].amount <= MAX_TRANSACTION_AMOUNT

----------------------------------------------------------------------------
(* Whose entry the idempotency guard hands out                              *)

\* the type of the entry a call of the operation writes under its key
KeyedType(op) == IF op = "addMoney" THEN "ADD_MONEY" ELSE "TRANSFER_DEBIT"

\* C34 (as claimed): a call answered with a cached duplicate result is
\* answered with an entry of its own user, written by the same operation
CachedEntryIsOwn ==
    \A p \in Slots :
        req[p].res = "duplicate" =>
            /\ txns[req[p].txn].user = req[p].user
            /\ txns[req[p].txn].type = KeyedType(req[p].op)

----------------------------------------------------------------------------
(* The frame workload: addMoney calls and transfers among three users       *)

FrameUsers == 3        \* registered users of the frame workload
FrameCalls == 2        \* calls of the frame workload
FrameOtps == 1         \* OTPs issued in the frame workload

InitFrame == InitDay(FrameUsers, {100}, FrameCalls)

NextFrame ==
    \/ \E p \in Slots : AddMoneyStart(p, Users, {100}, {NoKey})
    \/ \E p \in Slots : AddMoneyIdem(p)
    \/ \E p \in Slots : AddMoneyPending(p)
    \/ \E p \in Slots : AddMoneyFinalize(p)
    \/ GenerateTransferOTP(Users, UserEmails, {100}, FrameOtps)
    \/ \E p \in Slots : TransferStart(p, Users, UserEmails, {100}, {Code},
                                     1..FrameOtps, {NoKey})
    \/ \E p \in Slots : TransferIdem(p)
    \/ \E p \in Slots : TransferBegin(p)
    \/ \E p \in Slots : TransferLock(p)
    \/ \E p \in Slots : TransferCommit(p)

SpecFrame == InitFrame /\ [][NextFrame]_vars

\* the step in which the second unit of addMoney p commits
AddMoneyCommits(p) ==
    req[p].op = "addMoney" /\ req[p].pc = "gateway" /\ req'[p].pc = "done"

\* C35: the commit of a transfer leaves the wallets of all users but sender
\* and recipient as they were, and of the daily totals changes at most the
\* sender's total_transferred; the commit of the second unit of an addMoney
\* leaves the wallets of all other users as they were, and of the daily
\* totals changes at most the user's total_added
OnlyOwnRowsChange ==
    [][\A p \in Slots : \A u \in Users :
          /\ TransferCommits(p) =>
                /\ u \notin {req[p].user, req[p].rcpt} => balance'[u] = balance[u]
                /\ u # req[p].user => daily'[u] = daily[u]
                /\ daily'[u].added = daily[u].added
          /\ AddMoneyCommits(p) =>
                /\ u # req[p].user => balance'[u] = balance[u]
                /\ u # req[p].user => daily'[u] = daily[u]
                /\ daily'[u].transferred = daily[u].transferred]_vars

\* C35 witness: a transfer between two users and an addMoney of the third
\* have both committed
OnlyOwnRowsChangeWitness ==
    \E p, q \in Slots :
        /\ req[p].op = "transfer" /\ Committed(p) /\ req[p].rcpt # req[p].user
        /\ req[q].op = "addMoney" /\ Committed(q)
        /\ req[q].user \notin {req[p].user, req[p].rcpt}
        /\ balance[req[q].user] = 200
        /\ daily[req[p].user] = [added |-> 0, transferred |-> 100]
        /\ daily[req[q].user] = [added |-> 100, transferred |-> 0]

====
